---------------------------- MODULE Spec2Model ----------------------------
(***************************************************************************)
(* Model of drf_cached_view: the instance cache engine (BaseCache) over a  *)
(* cache backend and a backing store.  split and lower work on a string    *)
(* spelled out as a sequence of one-character strings.                     *)
(***************************************************************************)
EXTENDS Integers, Sequences, FiniteSets, TLC

VARIABLES db, cache, last, steps, facades, calls

vars == <<db, cache, last, steps, facades, calls>>

-----------------------------------------------------------------------------
(* Bounds of the model *)

\* number of operations (calls and entity changes) in one behaviour
MaxSteps == 3
\* longest object_specs list handed to get_instances
MaxBatch == 2

-----------------------------------------------------------------------------
(* Strings *)

UpperChars == <<"A","B","C","D","E","F","G","H","I","J","K","L","M",
                "N","O","P","Q","R","S","T","U","V","W","X","Y","Z">>
LowerChars == <<"a","b","c","d","e","f","g","h","i","j","k","l","m",
                "n","o","p","q","r","s","t","u","v","w","x","y","z">>

\* str.lower() on one character
LowerChar(c) ==
    IF \E i \in 1..Len(UpperChars) : UpperChars[i] = c
    THEN LowerChars[CHOOSE i \in 1..Len(UpperChars) : UpperChars[i] = c]
    ELSE c

\* str.lower()
Lower(s) == [i \in 1..Len(s) |-> LowerChar(s[i])]

DigitChars == <<"0","1","2","3","4","5","6","7","8","9">>

RECURSIVE Str(_)
\* "{pk}".format(pk=n) for a non-negative integer
Str(n) ==
    IF n < 10 THEN <<DigitChars[n + 1]>>
    ELSE Str(n \div 10) \o <<DigitChars[(n % 10) + 1]>>

RECURSIVE Join(_)
\* the string made of the characters of s
Join(s) == IF s = <<>> THEN "" ELSE Head(s) \o Join(Tail(s))

\* the python None
None == [kind |-> "None"]

\* s.split(".", 1) on the characters of s: the pieces around the first
\* dot, or s alone
Split1(s) ==
    IF \E i \in 1..Len(s) : s[i] = "."
    THEN LET i == CHOOSE k \in 1..Len(s) :
                      s[k] = "." /\ \A j \in 1..(k - 1) : s[j] # "."
         IN  <<SubSeq(s, 1, i - 1), SubSeq(s, i + 1, Len(s))>>
    ELSE <<s>>

-----------------------------------------------------------------------------
(* Registered models, the names callers use, settings *)

\* the strings of the model, spelled out
Spellings ==
    { <<"s","h","o","p">>,
      <<"w","i","d","g","e","t">>,
      <<"o","r","d","e","r">>,
      <<"W","i","d","g","e","t">>,
      <<"O","r","d","e","r">>,
      <<"s","h","o","p",".","W","i","d","g","e","t">>,
      <<"w","i","d","g","e","t","_","1">>,
      <<"W","i","d","g","e","t","_","1">>,
      <<"s","h","o","p",".","W","i","d","g","e","t","_","1">> }

\* the characters of a string of the model
Chars(str) == CHOOSE s \in Spellings : Join(s) = str

\* the models django's app registry holds: _meta.app_label, _meta.model_name
WidgetModel == [app_label |-> "shop", model_name |-> "widget"]
OrderModel == [app_label |-> "shop", model_name |-> "order"]
Widget1Model == [app_label |-> "shop", model_name |-> "widget_1"]
AllModels == <<WidgetModel, OrderModel, Widget1Model>>

\* the model names callers pass: the class name, bare and with its app label
ModelNames == {"Widget", "shop.Widget", "Order"}

\* DRF_CACHED_VIEW_SETTINGS["CACHE_KEY_PREFIX"]
CACHE_KEY_PREFIX == "DRFCV"

LookupError == [kind |-> "LookupError"]

\* apps.get_model(app_label, model_name): exact label, case-insensitive name
AppsGetModel(app_label, model_name) ==
    LET found == {i \in 1..Len(AllModels) :
                    /\ AllModels[i].app_label = Join(app_label)
                    /\ AllModels[i].model_name = Join(Lower(model_name))}
    IN  IF found = {} THEN LookupError
        ELSE AllModels[CHOOSE i \in found : TRUE]

\* BaseCache.get_model: a model, or LookupError
get_model(model_name) ==
    LET parts == Split1(Chars(model_name))
        app_label == IF Len(parts) = 2 THEN parts[1] ELSE <<>>
        name == IF Len(parts) = 2 THEN parts[2] ELSE Chars(model_name)
    IN  IF app_label # <<>>
        THEN AppsGetModel(app_label, name)
        ELSE LET models ==
                   {i \in 1..Len(AllModels) :
                      Lower(Chars(AllModels[i].model_name)) = Lower(name)}
             IN  IF Cardinality(models) # 1 THEN LookupError
                 ELSE AllModels[CHOOSE i \in models : TRUE]

\* get_model of every name callers pass, computed once
Resolved == [model_name \in ModelNames |-> get_model(model_name)]

\* the format string of line 53, given the text that format gives for pk
KeyText(model, pk_text) ==
    CACHE_KEY_PREFIX \o "_" \o model.app_label \o "."
        \o model.model_name \o "_" \o pk_text

\* BaseCache._key_for, for an int pk
_key_for(model, obj_pk) == KeyText(model, Join(Str(obj_pk)))

\* BaseCache.key_for, for the names callers pass
key_for(model_name, obj_pk) == _key_for(Resolved[model_name], obj_pk)

-----------------------------------------------------------------------------
(* Values: entities, cached representations, the cache backend *)

\* a local name that no assignment has bound yet
Unbound == [kind |-> "unbound"]

\* python truth of a modelled value: None is false; entities, non-empty
\* mappings and non-empty strings are true
Truthy(x) == x.kind # "None"

\* the primary keys callers ask for
Pks == {1}

\* the primary key of the rows only invalidators name
FarPks == {42}

\* the models whose rows and strategies are modelled
ModelSet == {WidgetModel, OrderModel}

\* the rows of the backing store: (model, pk)
Rows == ModelSet \X Pks

\* the states a stored entity can be in; 0 stands for no row
Versions == {1, 2, 3}

\* a model instance as the loader returns it
Entity(model, pk, ver) ==
    [kind |-> "entity", model |-> model, pk |-> pk, ver |-> ver]

\* the loader strategy of a model: the row with that pk, or None
Loader(dbv, model_name, obj_pk) ==
    LET model == Resolved[model_name]
    IN  IF dbv[<<model, obj_pk>>] = 0 THEN None
        ELSE Entity(model, obj_pk, dbv[<<model, obj_pk>>])

\* the serializer strategy: the representation of an entity.  It is lossy:
\* versions 1 and 2 differ only in a field that is not serialized.
Serializer(obj) ==
    [kind |-> "native",
     rep |-> [id |-> obj.pk,
              name |-> IF obj.ver \in {1, 2} THEN "Bolt" ELSE "Nut"]]

\* json.dumps(value): a string, which never equals a mapping
JsonDumps(value) == [kind |-> "json", text |-> value.rep]

\* a key only an invalidator names (a cached listing)
ListKey == "widget_list"

\* what other code stored under ListKey
ListValue == [kind |-> "native", rep |-> [id |-> 0, name |-> "listing"]]

\* what earlier calls stored for the rows only invalidators name
FarValue(key) ==
    LET r == CHOOSE x \in ModelSet \X FarPks : _key_for(x[1], x[2]) = key
    IN  Serializer(Entity(r[1], r[2], 1))

EntityKeys == {_key_for(r[1], r[2]) : r \in Rows}

\* the keys of the rows only invalidators name
FarKeys == {_key_for(r[1], r[2]) : r \in ModelSet \X FarPks}

Keys == EntityKeys \cup FarKeys \cup {ListKey}

Range(seq) == {seq[i] : i \in 1..Len(seq)}

\* a mapping with one more item, as d[k] = v
Put(d, k, v) == [x \in DOMAIN d \cup {k} |-> IF x = k THEN v ELSE d[x]]

EmptyMap == [x \in {} |-> None]

\* backend operations, as the cache backend sees them
OpGetMany(keys) == [op |-> "get_many", keys |-> keys]
OpSetMany(data) == [op |-> "set_many", data |-> data]
OpGet(key) == [op |-> "get", key |-> key]
OpSet(key, value) == [op |-> "set", key |-> key, value |-> value]
OpDelete(key) == [op |-> "delete", key |-> key]

\* the backend after one operation
Apply(c, o) ==
    CASE o.op = "set_many" ->
            [k \in DOMAIN c |-> IF k \in DOMAIN o.data THEN o.data[k] ELSE c[k]]
      [] o.op = "set" -> [c EXCEPT ![o.key] = o.value]
      [] o.op = "delete" -> [c EXCEPT ![o.key] = None]
      [] OTHER -> c

RECURSIVE ApplyAll(_, _)
\* the backend after a sequence of operations
ApplyAll(c, ops) ==
    IF ops = <<>> THEN c ELSE ApplyAll(Apply(c, Head(ops)), Tail(ops))

\* cache.get_many(keys): the present keys with their values
GetMany(c, keys) == [k \in {x \in Range(keys) : c[x] # None} |-> c[k]]

\* cache.get(key, default=None)
CacheGet(c, key) == c[key]

-----------------------------------------------------------------------------
(* BaseCache.get_instances *)

\* the set spec_keys the first loop builds: (model_name, obj_pk, obj_key)
SpecKeys(object_specs) ==
    {<<object_specs[i][1], object_specs[i][2],
       key_for(object_specs[i][1], object_specs[i][2])>> :
        i \in 1..Len(object_specs)}

\* the list cache_keys the first loop builds
CacheKeys(object_specs) ==
    [i \in 1..Len(object_specs) |->
        key_for(object_specs[i][1], object_specs[i][2])]

\* the orders in which a python set can be iterated
Orders(S) ==
    {f \in [1..Cardinality(S) -> S] :
        \A i, j \in 1..Cardinality(S) : f[i] = f[j] => i = j}

\* the locals of get_instances before the second loop
LoopStart ==
    [result |-> EmptyMap, cache_to_set |-> EmptyMap, obj |-> Unbound,
     loads |-> <<>>, raised |-> "none"]

\* lines 98 to 110, one pass of the second loop; loaded is what the loader
\* gives for this spec, which the pass asks for only on a miss
LoopPass(acc, spec_key, cache_values, loaded) ==
    LET cached == IF spec_key[3] \in DOMAIN cache_values
                  THEN cache_values[spec_key[3]] ELSE None
        miss == cached = None
        obj == IF miss THEN loaded ELSE acc.obj
        obj_native == IF miss
                      THEN (IF Truthy(loaded) THEN Serializer(loaded) ELSE None)
                      ELSE cached
    IN  IF Truthy(obj_native) /\ obj = Unbound
        THEN \* line 110 reads obj, which no pass has assigned
             [acc EXCEPT !.raised = "UnboundLocalError"]
        ELSE [result |-> IF Truthy(obj_native)
                         THEN Put(acc.result, <<spec_key[1], spec_key[2]>>,
                                  <<obj_native, spec_key[3], obj>>)
                         ELSE acc.result,
              cache_to_set |-> IF miss /\ Truthy(loaded)
                               THEN Put(acc.cache_to_set, spec_key[3],
                                        Serializer(loaded))
                               ELSE acc.cache_to_set,
              obj |-> obj,
              loads |-> IF miss
                        THEN Append(acc.loads, <<spec_key[1], spec_key[2]>>)
                        ELSE acc.loads,
              raised |-> "none"]

\* lines 97 to 110 for one (model_name, obj_pk, obj_key) of spec_keys
LoopBody(acc, spec_key, cache_values, dbv) ==
    LoopPass(acc, spec_key, cache_values,
             Loader(dbv, spec_key[1], spec_key[2]))

RECURSIVE Loop(_, _, _, _)
\* the second loop over spec_keys in the given order; it ends when a pass raises
Loop(acc, order, cache_values, dbv) ==
    IF order = <<>> \/ acc.raised # "none" THEN acc
    ELSE Loop(LoopBody(acc, Head(order), cache_values, dbv),
              Tail(order), cache_values, dbv)

\* a variant that stores the staged entries one set at a time
BulkWriteEach(cache_to_set) ==
    LET ks == CHOOSE f \in Orders(DOMAIN cache_to_set) : TRUE
    IN  [i \in 1..Len(ks) |-> OpSet(ks[i], cache_to_set[ks[i]])]

\* lines 112 to 113: the backend operations that store cache_to_set
BulkWrite(cache_to_set) ==
    IF DOMAIN cache_to_set # {} THEN <<OpSetMany(cache_to_set)>> ELSE <<>>

\* lines 112 to 115: the call as its caller and the backend see it, given the
\* bulk-get and the locals after the loop
Returned(c, object_specs, cache_keys, cache_values, fin) ==
    [op |-> "get_instances",
     object_specs |-> object_specs,
     cache_values |-> cache_values,
     result |-> IF fin.raised = "none" THEN fin.result ELSE EmptyMap,
     loads |-> fin.loads,
     raised |-> fin.raised,
     ops |-> <<OpGetMany(cache_keys)>>
               \o (IF fin.raised = "none" THEN BulkWrite(fin.cache_to_set)
                   ELSE <<>>),
     before |-> c]

\* lines 94 to 115, given the list cache_keys
Fetched(c, dbv, object_specs, order, cache_keys) ==
    Returned(c, object_specs, cache_keys, GetMany(c, cache_keys),
             Loop(LoopStart, order, GetMany(c, cache_keys), dbv))

\* the whole call: what it returns (or raises) and what it does to the backend
get_instances(c, dbv, object_specs, order) ==
    Fetched(c, dbv, object_specs, order, CacheKeys(object_specs))

-----------------------------------------------------------------------------
(* BaseCache.update_instance *)

\* what an invalidator yields: a literal cache key (a str) ...
KeyTarget(key) == [kind |-> "key", key |-> key]

\* ... or a tuple (model name, pk, immediate)
SpecTarget(model_name, pk, immediate) ==
    [kind |-> "spec", model_name |-> model_name, pk |-> pk,
     immediate |-> immediate]

\* the models for which get_serializer, get_loader and get_invalidator
\* return a strategy
StrategyModels == ModelSet

\* line 136: the three strategies are all None
NoStrategies(model_name) == Resolved[model_name] \notin StrategyModels

\* a variant that lets update_only create a first entry
ShouldWriteAlways(update_only, current) == TRUE

\* line 156: not update_only or (update_only and current)
ShouldWrite(update_only, current) ==
    ~update_only \/ (update_only /\ Truthy(current))

\* a variant that runs the cascade after a delete as well
RunsCascadeOnDelete(instance, perform_operation) == perform_operation

\* line 161: instance and perform_operation
RunsCascade(instance, perform_operation) ==
    Truthy(instance) /\ perform_operation

\* a variant that deletes the key of every tuple target
UpstreamOpsAll(upstream) ==
    IF upstream.kind = "key" THEN <<OpDelete(upstream.key)>>
    ELSE <<OpDelete(key_for(upstream.model_name, upstream.pk))>>

\* lines 163 to 169: the backend operations for one yielded target
UpstreamOps(upstream) ==
    IF upstream.kind = "key" THEN <<OpDelete(upstream.key)>>
    ELSE IF upstream.immediate
         THEN <<OpDelete(key_for(upstream.model_name, upstream.pk))>>
         ELSE <<>>

\* a variant that defers only the tuples it has not deleted
UpstreamInvalidLazy(upstream) ==
    IF upstream.kind = "key" \/ upstream.immediate THEN <<>>
    ELSE <<<<upstream.model_name, upstream.pk, upstream.immediate>>>>

\* lines 165 to 170: what one yielded target appends to invalid
UpstreamInvalid(upstream) ==
    IF upstream.kind = "key" THEN <<>>
    ELSE <<<<upstream.model_name, upstream.pk, upstream.immediate>>>>

RECURSIVE CascadeOps(_)
\* the backend operations of the loop at line 162
CascadeOps(targets) ==
    IF targets = <<>> THEN <<>>
    ELSE UpstreamOps(Head(targets)) \o CascadeOps(Tail(targets))

RECURSIVE CascadeInvalid(_)
\* the list invalid after the loop at line 162
CascadeInvalid(targets) ==
    IF targets = <<>> THEN <<>>
    ELSE UpstreamInvalid(Head(targets)) \o CascadeInvalid(Tail(targets))

\* lines 143 to 172, given the instance (supplied or loaded) and its key
Updated(c, model_name, pk, supplied, update_only, yields, instance, key) ==
    LET current == CacheGet(c, key)
        new == IF Truthy(instance) THEN Serializer(instance) ELSE None
        deletes == instance = None /\ Truthy(current)
        writes == /\ instance # None
                  /\ current # new
                  /\ ShouldWrite(update_only, current)
        cascade == RunsCascade(instance, deletes \/ writes)
    IN  [op |-> "update_instance", model_name |-> model_name, pk |-> pk,
         supplied |-> supplied, update_only |-> update_only,
         instance |-> instance, key |-> key, current |-> current,
         new |-> new, perform_operation |-> deletes \/ writes,
         invalidated |-> IF cascade THEN <<instance>> ELSE <<>>,
         yields |-> IF cascade THEN yields ELSE <<>>,
         ret |-> IF cascade THEN CascadeInvalid(yields) ELSE <<>>,
         ops |-> <<OpGet(key)>>
                   \o (IF deletes THEN <<OpDelete(key)>> ELSE <<>>)
                   \o (IF writes THEN <<OpSet(key, JsonDumps(new))>> ELSE <<>>)
                   \o (IF cascade THEN CascadeOps(yields) ELSE <<>>),
         raised |-> "none", before |-> c]

\* the whole call; yields is what the invalidator produces if it is invoked
update_instance(c, dbv, model_name, pk, supplied, update_only, yields) ==
    IF NoStrategies(model_name)
    THEN [op |-> "update_instance", model_name |-> model_name, pk |-> pk,
          supplied |-> supplied, update_only |-> update_only,
          instance |-> supplied, key |-> "", current |-> None,
          new |-> None, perform_operation |-> FALSE,
          invalidated |-> <<>>, yields |-> <<>>, ret |-> None,
          ops |-> <<>>, raised |-> "none", before |-> c]
    ELSE Updated(c, model_name, pk, supplied, update_only, yields,
                 IF ~Truthy(supplied) THEN Loader(dbv, model_name, pk)
                 ELSE supplied,
                 key_for(model_name, pk))

-----------------------------------------------------------------------------
(* Callers and the state machine *)

\* the object specs callers pass
ObjectSpecs == ModelNames \X Pks

\* the object specs in some fixed order
SpecList == CHOOSE f \in Orders(ObjectSpecs) : TRUE

\* the object_specs lists callers pass; get_instances puts the specs in a
\* set, so lists that differ only in the order of their items are one case
Batches ==
    UNION {{[i \in 1..n |-> SpecList[idx[i]]] :
              idx \in {f \in [1..n -> 1..Len(SpecList)] :
                         \A i \in 1..(n - 1) : f[i] <= f[i + 1]}} :
           n \in 1..MaxBatch}

\* a name of the other model, for the dependents an invalidator names
DependentName(model) ==
    IF model = WidgetModel THEN "Order" ELSE "Widget"

\* what the invalidator strategy of a model may yield for an instance
Yields(model, pk) ==
    UNION {{ <<>>,
             <<KeyTarget(ListKey), SpecTarget(DependentName(model), pk, FALSE)>>,
             <<SpecTarget(DependentName(model), pk, TRUE),
               SpecTarget(DependentName(model), far, FALSE)>>,
             <<SpecTarget(DependentName(model), far, TRUE),
               KeyTarget(ListKey),
               SpecTarget(DependentName(model), pk, FALSE)>> } :
           far \in FarPks}

Init ==
    /\ \E present \in [ModelSet -> {0, 1}] :
          db = [row \in Rows |-> present[row[1]]]
    /\ cache = [k \in Keys |->
                  IF k = ListKey THEN ListValue
                  ELSE IF k \in FarKeys THEN FarValue(k)
                  ELSE None]
    /\ last = [op |-> "init"]
    /\ steps = 0
    /\ facades = <<>>
    /\ calls = <<>>

\* a caller runs get_instances(object_specs) to its end
GetInstances ==
    /\ steps < MaxSteps
    /\ \E object_specs \in Batches :
       \E order \in Orders(SpecKeys(object_specs)) :
       \E r \in {get_instances(cache, db, object_specs, order)} :
          /\ cache' = ApplyAll(cache, r.ops)
          /\ last' = r
    /\ steps' = steps + 1
    /\ UNCHANGED <<db, facades, calls>>

\* a caller runs update_instance(model_name, pk, instance, update_only)
UpdateInstance ==
    /\ steps < MaxSteps
    /\ \E model_name \in ModelNames, pk \in Pks, update_only \in BOOLEAN :
       \E supplied \in {None, Loader(db, model_name, pk)} :
       \E yields \in Yields(Resolved[model_name], pk) :
       \E r \in {update_instance(cache, db, model_name, pk, supplied,
                                  update_only, yields)} :
          /\ cache' = ApplyAll(cache, r.ops)
          /\ last' = r
    /\ steps' = steps + 1
    /\ UNCHANGED <<db, facades, calls>>

\* the backing store saves a row (creates it or changes it)
SaveEntity ==
    /\ steps < MaxSteps
    /\ \E row \in Rows, ver \in Versions :
          /\ db[row] # ver
          /\ db' = [db EXCEPT ![row] = ver]
          /\ last' = [op |-> "save", row |-> row, ver |-> ver]
    /\ steps' = steps + 1
    /\ UNCHANGED <<cache, facades, calls>>

\* the backing store deletes a row
DeleteEntity ==
    /\ steps < MaxSteps
    /\ \E row \in Rows :
          /\ db[row] # 0
          /\ db' = [db EXCEPT ![row] = 0]
          /\ last' = [op |-> "delete", row |-> row, ver |-> 0]
    /\ steps' = steps + 1
    /\ UNCHANGED <<cache, facades, calls>>

Next == GetInstances \/ UpdateInstance \/ SaveEntity \/ DeleteEntity

Spec == Init /\ [][Next]_vars

-----------------------------------------------------------------------------
(* CachedQueryset: the facade over a queryset and the cache *)

\* the primary keys of the rows the facade's querysets range over
FacadePks == {1, 2}

\* queryset.model of the facades, and its __name__
FacadeModel == WidgetModel
FacadeName == "Widget"

FacadeRows == {FacadeModel} \X FacadePks

FacadeKeys == {_key_for(r[1], r[2]) : r \in FacadeRows}

\* a python list
PyList(items) == [kind |-> "list", items |-> items]

\* a python int
PyInt(value) == [kind |-> "int", value |-> value]

\* a queryset of the store: the rows it selects, by primary key, and its
\* order
Queryset(where, order) == [where |-> where, order |-> order]

\* the lazy queryset values_list("pk", flat=True)[lo:hi]
Sliced(queryset, lo, hi) ==
    [kind |-> "queryset", queryset |-> queryset, lo |-> lo, hi |-> hi]

\* CachedQueryset(cache, queryset, primary_keys); result_cache is the
\* _result_cache of a queryset held as _primary_keys.  Two counters record
\* the history: resolved, the times the store was asked for this facade's
\* own key list, and asked, the times an operation on this facade asked the
\* store for primary keys
Facade(queryset, primary_keys) ==
    [queryset |-> queryset, primary_keys |-> primary_keys,
     result_cache |-> None, resolved |-> 0, asked |-> 0]

RECURSIVE Ascending(_)
\* the numbers of S, smallest first
Ascending(S) ==
    IF S = {} THEN <<>>
    ELSE LET m == CHOOSE x \in S : \A y \in S : x <= y
         IN  <<m>> \o Ascending(S \ {m})

Reverse(s) == [i \in 1..Len(s) |-> s[Len(s) + 1 - i]]

\* list(queryset.values_list("pk", flat=True)): the primary keys of the
\* rows the queryset selects, in its order
ValuesList(dbv, queryset) ==
    LET rows == Ascending({p \in queryset.where : dbv[<<FacadeModel, p>>] # 0})
    IN  IF queryset.order = "pk" THEN rows ELSE Reverse(rows)

\* s[lo:hi] of python, for 0 <= lo <= hi
Slice(s, lo, hi) ==
    SubSeq(s, lo + 1, IF hi < Len(s) THEN hi ELSE Len(s))

\* the keys __getitem__ is called with: an int or a slice
IntKey(i) == [kind |-> "int", i |-> i]
SliceKey(lo, hi) == [kind |-> "slice", lo |-> lo, hi |-> hi]

\* a variant that asks the store on every access
pksAlways(dbv, self) ==
    [self EXCEPT !.primary_keys = PyList(ValuesList(dbv, self.queryset)),
                 !.resolved = @ + 1, !.asked = @ + 1]

\* the property pks, lines 81 to 83: the facade after the access
pks(dbv, self) ==
    IF self.primary_keys = None
    THEN [self EXCEPT !.primary_keys = PyList(ValuesList(dbv, self.queryset)),
                      !.resolved = @ + 1, !.asked = @ + 1]
    ELSE self

\* the facade after python has iterated or measured its key list: a
\* queryset held as the key list runs its query once and keeps the rows
FetchAll(dbv, self) ==
    IF self.primary_keys.kind = "queryset" /\ self.result_cache = None
    THEN [self EXCEPT
            !.result_cache =
                PyList(Slice(ValuesList(dbv, self.primary_keys.queryset),
                             self.primary_keys.lo, self.primary_keys.hi)),
            !.resolved = @ + 1, !.asked = @ + 1]
    ELSE self

\* the keys python iterates over, once fetched; an int has none to give
Items(self) ==
    CASE self.primary_keys.kind = "list" -> self.primary_keys.items
      [] self.primary_keys.kind = "queryset" -> self.result_cache.items
      [] OTHER -> <<>>

\* line 88: object_specs
ObjectSpecsOf(items) == [i \in 1..Len(items) |-> <<FacadeName, items[i]>>]

\* CachedModel(model, data)
CachedModel(data) == [kind |-> "CachedModel", data |-> data]

\* what the iteration is to yield for one pk: a placeholder for a key the
\* batch omitted
YieldOnePlaceholder(instances, pk) ==
    IF <<FacadeName, pk>> \in DOMAIN instances
    THEN CachedModel(instances[<<FacadeName, pk>>][1])
    ELSE CachedModel(EmptyMap)

\* lines 91 to 92 for one pk: instances.get((model_name, pk), {})[0] looks
\* up 0 in the empty dict when the key is missing
YieldOne(instances, pk) ==
    IF <<FacadeName, pk>> \in DOMAIN instances
    THEN CachedModel(instances[<<FacadeName, pk>>][1])
    ELSE [kind |-> "KeyError"]

RECURSIVE YieldAll(_, _)
\* lines 90 to 92: what the generator yields until it raises
YieldAll(instances, items) ==
    IF items = <<>> THEN <<>>
    ELSE IF YieldOne(instances, Head(items)).kind = "KeyError" THEN <<>>
    ELSE <<YieldOne(instances, Head(items))>>
            \o YieldAll(instances, Tail(items))

\* __iter__ run to its end, given the facade after line 88 and the
\* get_instances call of line 89
Iterated(i, before, self, g) ==
    [op |-> "iter", facade |-> i, before |-> before, self |-> self,
     keys |-> Items(self),
     gets |-> <<g>>,
     yielded |-> IF g.raised # "none" THEN <<>>
                 ELSE YieldAll(g.result, Items(self)),
     raised |-> IF g.raised # "none" THEN g.raised
                ELSE IF \E k \in 1..Len(Items(self)) :
                           YieldOne(g.result, Items(self)[k]).kind = "KeyError"
                     THEN "KeyError"
                     ELSE "none"]

\* __iter__ over a key list that is an int: line 88 raises
IterateInt(i, before, self) ==
    [op |-> "iter", facade |-> i, before |-> before, self |-> self,
     keys |-> <<>>, gets |-> <<>>, yielded |-> <<>>, raised |-> "TypeError"]

\* count, lines 105 to 110
count(i, dbv, self) ==
    IF self.primary_keys = None
    THEN [op |-> "count", facade |-> i, before |-> self, self |-> self,
          value |-> Len(ValuesList(dbv, self.queryset)), raised |-> "none"]
    ELSE IF self.primary_keys.kind = "int"
    THEN [op |-> "count", facade |-> i, before |-> self, self |-> self,
          value |-> 0, raised |-> "TypeError"]
    ELSE [op |-> "count", facade |-> i, before |-> self,
          self |-> FetchAll(dbv, self),
          value |-> Len(Items(FetchAll(dbv, self))), raised |-> "none"]

\* a variant that hands the receiver's key list to the new facade
filterCarry(self, kwargs) ==
    Facade(Queryset(self.queryset.where \cap kwargs, self.queryset.order),
           self.primary_keys)

\* filter(**kwargs), lines 114 to 115; kwargs stands for the rows it admits
filter(self, kwargs) ==
    Facade(Queryset(self.queryset.where \cap kwargs, self.queryset.order),
           None)

\* order_by(*field_names), lines 144 to 145
order_by(self, field_names) ==
    Facade(Queryset(self.queryset.where, field_names), None)

\* line 119, self.queryset.get(**kwargs): the rows that match
Matching(dbv, self, kwargs) ==
    ValuesList(dbv, Queryset(self.queryset.where \cap kwargs,
                             self.queryset.order))

\* get when line 119 raises: no row, or more than one, matches
GetNoMatch(i, self, kwargs, matching) ==
    [op |-> "get", facade |-> i, before |-> self, self |-> self,
     kwargs |-> kwargs, pk |-> 0, gets |-> <<>>, returned |-> None,
     raised |-> IF matching = <<>> THEN "DoesNotExist"
                ELSE "MultipleObjectsReturned",
     raised_at |-> 119]

\* get, lines 120 to 130, given the pk of line 119 and the get_instances
\* call of line 122
Got(i, self, kwargs, pk, g) ==
    [op |-> "get", facade |-> i, before |-> self, self |-> self,
     kwargs |-> kwargs, pk |-> pk, gets |-> <<g>>,
     returned |-> IF g.raised = "none"
                     /\ <<FacadeName, pk>> \in DOMAIN g.result
                  THEN CachedModel(g.result[<<FacadeName, pk>>][1])
                  ELSE None,
     raised |-> IF g.raised # "none" THEN g.raised
                ELSE IF <<FacadeName, pk>> \in DOMAIN g.result THEN "none"
                ELSE "DoesNotExist",
     raised_at |-> IF g.raised # "none" THEN 122
                   ELSE IF <<FacadeName, pk>> \in DOMAIN g.result THEN 0
                   ELSE 126]

\* items[key] of a python list
ListItem(items, key) ==
    IF key.kind = "slice" THEN PyList(Slice(items, key.lo, key.hi))
    ELSE IF key.i < Len(items) THEN PyInt(items[key.i + 1])
    ELSE [kind |-> "IndexError"]

\* queryset[key] of a queryset already limited to [lo:hi]: a slice narrows
\* the limits and stays lazy, an int runs the query
QuerysetItem(dbv, queryset, lo, hi, key) ==
    IF key.kind = "slice"
    THEN Sliced(queryset,
                IF lo + key.lo < hi THEN lo + key.lo ELSE hi,
                IF lo + key.hi < hi THEN lo + key.hi ELSE hi)
    ELSE ListItem(Slice(ValuesList(dbv, queryset), lo, hi), key)

\* line 135: self.queryset.values_list("pk", flat=True)[key]
StoreItem(dbv, self, key) ==
    IF key.kind = "slice" THEN Sliced(self.queryset, key.lo, key.hi)
    ELSE ListItem(ValuesList(dbv, self.queryset), key)

\* lines 138 to 139: a single pk becomes a list of one
Wrap(pks_, key) ==
    IF key.kind = "int" /\ pks_.kind = "int" THEN PyList(<<pks_.value>>)
    ELSE pks_

\* line 137: self.pks[key], then lines 138 to 139
MemoItem(dbv, self, key) ==
    CASE self.primary_keys.kind = "list" ->
            Wrap(ListItem(self.primary_keys.items, key), key)
      [] self.primary_keys.kind = "int" -> [kind |-> "TypeError"]
      [] self.primary_keys.kind = "queryset" ->
            IF self.result_cache # None
            THEN Wrap(ListItem(self.result_cache.items, key), key)
            ELSE Wrap(QuerysetItem(dbv, self.primary_keys.queryset,
                                   self.primary_keys.lo, self.primary_keys.hi,
                                   key), key)

\* whether queryset[key] runs a query at once: an int index on a queryset
\* that has not kept its rows
AsksStore(self, key) ==
    /\ key.kind = "int"
    /\ \/ self.primary_keys = None
       \/ self.primary_keys.kind = "queryset" /\ self.result_cache = None

\* __getitem__, lines 134 to 140, given the value pks of its branch
GotItem(i, self, key, pks_) ==
    [op |-> "getitem", facade |-> i, before |-> self,
     self |-> IF AsksStore(self, key) THEN [self EXCEPT !.asked = @ + 1]
              ELSE self,
     key |-> key,
     made |-> IF pks_.kind \in {"IndexError", "TypeError"} THEN None
              ELSE Facade(self.queryset, pks_),
     raised |-> IF pks_.kind \in {"IndexError", "TypeError"} THEN pks_.kind
                ELSE "none"]

\* __getitem__: the branch on the memoized key list
getitem(i, dbv, self, key) ==
    GotItem(i, self, key,
            IF self.primary_keys = None THEN StoreItem(dbv, self, key)
            ELSE MemoItem(dbv, self, key))

\* the criteria callers filter and look up by: the rows they admit
Criteria == {{1}, {2}}

\* the fields callers order by
OrderFields == {"-pk"}

\* the keys callers index and slice with
ItemKeys == {IntKey(0), IntKey(1), SliceKey(0, 1), SliceKey(1, 2)}

\* the queryset a view hands to its first facade
BaseQueryset == Queryset(FacadePks, "pk")

FacadeInit ==
    /\ db \in [FacadeRows -> {0, 1}]
    /\ cache = [k \in FacadeKeys |-> None]
    /\ \E primary_keys \in {None, PyList(ValuesList(db, BaseQueryset))} :
          facades = <<Facade(BaseQueryset, primary_keys)>>
    /\ last = [op |-> "init"]
    /\ steps = 0
    /\ calls = <<>>

\* a caller iterates over facade i to the end
Iterate ==
    /\ steps < MaxSteps
    /\ \E i \in DOMAIN facades :
       \E self \in {FetchAll(db, pks(db, facades[i]))} :
          /\ facades' = [facades EXCEPT ![i] = self]
          /\ IF self.primary_keys.kind = "int"
             THEN /\ last' = IterateInt(i, facades[i], self)
                  /\ cache' = cache
             ELSE \E order \in Orders(SpecKeys(ObjectSpecsOf(Items(self)))) :
                  \E g \in {get_instances(cache, db,
                                          ObjectSpecsOf(Items(self)), order)} :
                     /\ cache' = ApplyAll(cache, g.ops)
                     /\ last' = Iterated(i, facades[i], self, g)
    /\ steps' = steps + 1
    /\ UNCHANGED <<db, calls>>

\* a caller asks facade i for its count
Count ==
    /\ steps < MaxSteps
    /\ \E i \in DOMAIN facades :
       \E r \in {count(i, db, facades[i])} :
          /\ facades' = [facades EXCEPT ![i] = r.self]
          /\ last' = r
    /\ steps' = steps + 1
    /\ UNCHANGED <<db, cache, calls>>

\* a caller filters facade i
Filter ==
    /\ steps < MaxSteps
    /\ \E i \in DOMAIN facades, kwargs \in Criteria :
          /\ facades' = Append(facades, filter(facades[i], kwargs))
          /\ last' = [op |-> "filter", facade |-> i, before |-> facades[i],
                      self |-> facades[i], made |-> filter(facades[i], kwargs),
                      raised |-> "none"]
    /\ steps' = steps + 1
    /\ UNCHANGED <<db, cache, calls>>

\* a caller orders facade i
OrderBy ==
    /\ steps < MaxSteps
    /\ \E i \in DOMAIN facades, field_names \in OrderFields :
          /\ facades' = Append(facades, order_by(facades[i], field_names))
          /\ last' = [op |-> "order_by", facade |-> i, before |-> facades[i],
                      self |-> facades[i],
                      made |-> order_by(facades[i], field_names),
                      raised |-> "none"]
    /\ steps' = steps + 1
    /\ UNCHANGED <<db, cache, calls>>

\* a caller looks one entity up through facade i
Get ==
    /\ steps < MaxSteps
    /\ \E i \in DOMAIN facades, kwargs \in Criteria :
       \E matching \in {Matching(db, facades[i], kwargs)} :
          IF Len(matching) # 1
          THEN /\ last' = GetNoMatch(i, facades[i], kwargs, matching)
               /\ cache' = cache
          ELSE \E g \in {get_instances(cache, db,
                                       <<<<FacadeName, matching[1]>>>>,
                                       <<<<FacadeName, matching[1],
                                           key_for(FacadeName, matching[1])>>>>)} :
                  /\ cache' = ApplyAll(cache, g.ops)
                  /\ last' = Got(i, facades[i], kwargs, matching[1], g)
    /\ steps' = steps + 1
    /\ UNCHANGED <<db, facades, calls>>

\* a caller indexes or slices facade i
GetItem ==
    /\ steps < MaxSteps
    /\ \E i \in DOMAIN facades, key \in ItemKeys :
       \E r \in {getitem(i, db, facades[i], key)} :
          /\ facades' = IF r.made = None THEN [facades EXCEPT ![i] = r.self]
                        ELSE Append([facades EXCEPT ![i] = r.self], r.made)
          /\ last' = r
    /\ steps' = steps + 1
    /\ UNCHANGED <<db, cache, calls>>

\* the backing store deletes a row the facades range over
DeleteRow ==
    /\ steps < MaxSteps
    /\ \E row \in FacadeRows :
          /\ db[row] # 0
          /\ db' = [db EXCEPT ![row] = 0]
          /\ last' = [op |-> "delete", row |-> row, ver |-> 0]
    /\ steps' = steps + 1
    /\ UNCHANGED <<cache, facades, calls>>

FacadeNext ==
    Iterate \/ Count \/ Filter \/ OrderBy \/ Get \/ GetItem \/ DeleteRow

FacadeSpec == FacadeInit /\ [][FacadeNext]_vars

-----------------------------------------------------------------------------
(* Calls of several callers, interleaved at their backend and store steps *)

\* a get_instances call after its bulk-get, lines 84 to 96; order is the
\* order in which the loop at line 97 will take spec_keys
GetCall(c, object_specs, order) ==
    [op |-> "get_instances",
     pc |-> IF order = <<>> THEN "bulk_write" ELSE "loop",
     object_specs |-> object_specs, order |-> order,
     cache_values |-> GetMany(c, CacheKeys(object_specs)),
     acc |-> LoopStart]

\* where the call goes after a pass of the loop
AfterPass(acc, rest) ==
    IF acc.raised # "none" THEN "done"
    ELSE IF rest = <<>> THEN "bulk_write" ELSE "loop"

\* lines 98 to 110: one pass of the loop, which may ask the loader
PassDone(call, acc) ==
    [call EXCEPT !.acc = acc, !.order = Tail(call.order),
                 !.pc = AfterPass(acc, Tail(call.order))]

\* lines 112 to 115: the bulk-write and the return
AfterBulkWrite(call) == [call EXCEPT !.pc = "done"]

\* an update_instance call that was given no instance, after it has loaded
\* one, lines 132 to 141
UpdateCall(dbv, model_name, pk, update_only) ==
    [op |-> "update_instance", pc |-> "get", model_name |-> model_name,
     pk |-> pk, update_only |-> update_only,
     instance |-> Loader(dbv, model_name, pk),
     current |-> None, ret |-> <<>>]

\* lines 144 to 145: the call reads the current entry
AfterGet(c, call) ==
    [call EXCEPT !.current = CacheGet(c, key_for(call.model_name, call.pk)),
                 !.pc = "write"]

\* lines 147 to 172 with the entry read at line 145: what the call does to
\* the backend and returns
WriteOf(c, call, yields) ==
    Updated([c EXCEPT ![key_for(call.model_name, call.pk)] = call.current],
            call.model_name, call.pk, None, call.update_only, yields,
            call.instance, key_for(call.model_name, call.pk))

\* what the invalidators of the interleaved calls yield
ConcYields == {<<>>}

\* the entity the interleaved calls are about, and the names they use
ConcRow == <<WidgetModel, 1>>
ConcNames == {"Widget"}

\* the states the entity can be saved in
ConcVersions == {1, 3}

ConcInit ==
    /\ db \in [{ConcRow} -> {0, 1}]
    /\ cache = [k \in {_key_for(ConcRow[1], ConcRow[2])} |-> None]
    /\ calls = <<>>
    /\ last = [op |-> "init"]
    /\ steps = 0
    /\ facades = <<>>

\* a caller enters get_instances with one spec; the call does its bulk-get
StartGet ==
    /\ steps < MaxSteps
    /\ \E model_name \in ConcNames :
       \E order \in Orders(SpecKeys(<<<<model_name, ConcRow[2]>>>>)) :
          calls' = Append(calls,
                          GetCall(cache, <<<<model_name, ConcRow[2]>>>>, order))
    /\ steps' = steps + 1
    /\ UNCHANGED <<db, cache, last, facades>>

\* a get_instances call makes one pass of its loop
LoopStep ==
    /\ \E i \in DOMAIN calls :
          /\ calls[i].op = "get_instances" /\ calls[i].pc = "loop"
          /\ \E acc \in {LoopBody(calls[i].acc, Head(calls[i].order),
                                  calls[i].cache_values, db)} :
                calls' = [calls EXCEPT ![i] = PassDone(calls[i], acc)]
    /\ UNCHANGED <<db, cache, last, steps, facades>>

\* a get_instances call does its bulk-write and returns
BulkWriteStep ==
    /\ \E i \in DOMAIN calls :
          /\ calls[i].op = "get_instances" /\ calls[i].pc = "bulk_write"
          /\ cache' = ApplyAll(cache, BulkWrite(calls[i].acc.cache_to_set))
          /\ calls' = [calls EXCEPT ![i] = AfterBulkWrite(calls[i])]
    /\ UNCHANGED <<db, last, steps, facades>>

\* a caller enters update_instance without an instance; the call loads it
StartUpdate ==
    /\ steps < MaxSteps
    /\ \E model_name \in ConcNames, update_only \in BOOLEAN :
          calls' = Append(calls,
                          UpdateCall(db, model_name, ConcRow[2], update_only))
    /\ steps' = steps + 1
    /\ UNCHANGED <<db, cache, last, facades>>

\* an update_instance call reads the current entry
UpdateGetStep ==
    /\ \E i \in DOMAIN calls :
          /\ calls[i].op = "update_instance" /\ calls[i].pc = "get"
          /\ calls' = [calls EXCEPT ![i] = AfterGet(cache, calls[i])]
    /\ UNCHANGED <<db, cache, last, steps, facades>>

\* an update_instance call deletes or writes, runs its cascade and returns
UpdateWriteStep ==
    /\ \E i \in DOMAIN calls :
          /\ calls[i].op = "update_instance" /\ calls[i].pc = "write"
          /\ \E yields \in ConcYields :
             \E r \in {WriteOf(cache, calls[i], yields)} :
                /\ cache' = ApplyAll(cache, Tail(r.ops))
                /\ calls' = [calls EXCEPT ![i] =
                               [calls[i] EXCEPT !.pc = "done", !.ret = r.ret]]
    /\ UNCHANGED <<db, last, steps, facades>>

\* the backing store saves the entity in another state, or deletes it
ChangeEntity ==
    /\ steps < MaxSteps
    /\ \E ver \in ConcVersions \cup {0} :
          /\ db[ConcRow] # ver
          /\ db' = [db EXCEPT ![ConcRow] = ver]
          /\ last' = [op |-> IF ver = 0 THEN "delete" ELSE "save",
                      row |-> ConcRow, ver |-> ver]
    /\ steps' = steps + 1
    /\ UNCHANGED <<cache, calls, facades>>

ConcNext ==
    \/ StartGet \/ LoopStep \/ BulkWriteStep
    \/ StartUpdate \/ UpdateGetStep \/ UpdateWriteStep
    \/ ChangeEntity

ConcSpec == ConcInit /\ [][ConcNext]_vars

-----------------------------------------------------------------------------
(* key_for as a function of its arguments *)

\* a primary key: an int, or a str (a slug, a code)
PkInt(n) == [kind |-> "int", int |-> n, str |-> ""]
PkStr(t) == [kind |-> "str", int |-> 0, str |-> t]

\* "{pk}".format(pk=obj_pk)
FormatPk(obj_pk) ==
    IF obj_pk.kind = "int" THEN Join(Str(obj_pk.int)) ELSE obj_pk.str

\* the names key_for is called with: bare and qualified class names
KeyNames == {"Widget", "shop.Widget", "Widget_1", "shop.Widget_1", "Order"}

\* the primary keys key_for is called with
KeyPks == {PkInt(1), PkInt(2), PkInt(7), PkInt(12), PkStr("1_2")}

\* get_model of every name key_for is called with, computed once
KeyResolved == [model_name \in KeyNames |-> get_model(model_name)]

\* BaseCache.key_for, lines 48 to 58
KeyFor(model_name, obj_pk) ==
    KeyText(KeyResolved[model_name], FormatPk(obj_pk))

KeyInit ==
    /\ last = [op |-> "init"]
    /\ steps = 0
    /\ db = EmptyMap
    /\ cache = EmptyMap
    /\ facades = <<>>
    /\ calls = <<>>

\* a caller computes the keys of two specs
KeyForCall ==
    /\ steps < MaxSteps
    /\ \E q1 \in KeyNames, q2 \in KeyNames, pk1 \in KeyPks, pk2 \in KeyPks :
          last' = [op |-> "key_for", q1 |-> q1, pk1 |-> pk1,
                   q2 |-> q2, pk2 |-> pk2,
                   model1 |-> KeyResolved[q1], model2 |-> KeyResolved[q2],
                   key1 |-> KeyFor(q1, pk1), key2 |-> KeyFor(q2, pk2)]
    /\ steps' = steps + 1
    /\ UNCHANGED <<db, cache, facades, calls>>

KeyNext == KeyForCall

KeySpec == KeyInit /\ [][KeyNext]_vars

-----------------------------------------------------------------------------
(* ViewCache: the cache with the default strategies of a view *)

\* the names under which the view's model is updated
ViewNames == {"Widget", "shop.Widget"}

\* ViewCache.get_loader, lines 185 to 188: objects.get gives the row or
\* raises DoesNotExist
ViewLoader(dbv, model_name, pk) ==
    IF Loader(dbv, model_name, pk) = None THEN [kind |-> "DoesNotExist"]
    ELSE Loader(dbv, model_name, pk)

\* ViewCache.get_invalidator, lines 190 to 191: a list
ViewInvalidator == [kind |-> "list", items |-> <<>>]

\* calling a python value: only a function can be called
Callable(value) == value.kind = "function"

\* line 162 with the invalidator of ViewCache: the call invalidator(instance)
\* raises TypeError once the cascade is to run
ViewCascade(r, invalidator) ==
    IF r.invalidated # <<>> /\ ~Callable(invalidator)
    THEN [r EXCEPT !.raised = "TypeError", !.ret = None, !.invalidated = <<>>]
    ELSE r

\* update_instance of a ViewCache when its loader raises at line 141
ViewLoadFailed(c, model_name, pk, supplied, update_only) ==
    [op |-> "update_instance", model_name |-> model_name, pk |-> pk,
     supplied |-> supplied, update_only |-> update_only,
     instance |-> None, key |-> "", current |-> None,
     new |-> None, perform_operation |-> FALSE,
     invalidated |-> <<>>, yields |-> <<>>, ret |-> None,
     ops |-> <<>>, raised |-> "DoesNotExist", before |-> c]

\* update_instance of a ViewCache, lines 132 to 172
view_update_instance(c, dbv, model_name, pk, supplied, update_only) ==
    IF ~Truthy(supplied) /\ ViewLoader(dbv, model_name, pk).kind = "DoesNotExist"
    THEN ViewLoadFailed(c, model_name, pk, supplied, update_only)
    ELSE ViewCascade(
            Updated(c, model_name, pk, supplied, update_only, <<>>,
                    IF ~Truthy(supplied) THEN ViewLoader(dbv, model_name, pk)
                    ELSE supplied,
                    key_for(model_name, pk)),
            ViewInvalidator)

\* a view's caller runs update_instance(model_name, pk, instance, update_only)
ViewUpdateInstance ==
    /\ steps < MaxSteps
    /\ \E model_name \in ViewNames, pk \in Pks, update_only \in BOOLEAN :
       \E supplied \in {None, Loader(db, model_name, pk)} :
       \E r \in {view_update_instance(cache, db, model_name, pk, supplied,
                                       update_only)} :
          /\ cache' = ApplyAll(cache, r.ops)
          /\ last' = r
    /\ steps' = steps + 1
    /\ UNCHANGED <<db, facades, calls>>

ViewNext == ViewUpdateInstance \/ SaveEntity \/ DeleteEntity

ViewSpec == Init /\ [][ViewNext]_vars

-----------------------------------------------------------------------------
(* Properties *)

\* the last operation was a get_instances call
IsGet == last.op = "get_instances"

\* the last operation was an update_instance call
IsUpdate == last.op = "update_instance"

\* the backend operations of the last call of one kind
OpsOf(kind) == {i \in 1..Len(last.ops) : last.ops[i].op = kind}

\* the representation a cached value holds, whatever its form
RepOf(value) == IF value.kind = "json" THEN value.text ELSE value.rep

\* C1: get_instances([S]) directly followed by get_instances([S]) completes
\* both calls without error, and the second call never invokes the loader
\* (stated here for an entity that exists, so that the first call caches it).
C1_SecondGetIsHit ==
    [][(/\ last.op = "get_instances"
        /\ last'.op = "get_instances"
        /\ Len(last.object_specs) = 1
        /\ last'.object_specs = last.object_specs
        /\ Loader(db, last.object_specs[1][1], last.object_specs[1][2]) # None)
       => (/\ last.raised = "none"
           /\ last'.raised = "none"
           /\ last'.loads = <<>>)]_vars

\* C2: when the serialized form of the entity equals the representation
\* cached for it, update_instance issues no backend set and no delete, does
\* not invoke the invalidator and returns an empty list.
C2_NoOpOnUnchanged ==
    (/\ IsUpdate
     /\ Truthy(last.instance)
     /\ last.current # None
     /\ RepOf(last.current) = last.new.rep)
    => (/\ OpsOf("set") = {}
        /\ OpsOf("delete") = {}
        /\ last.invalidated = <<>>
        /\ last.ret = <<>>)

\* C3: update_instance with update_only=True for a key that holds no entry
\* leaves the key without an entry and does not invoke the invalidator.
C3_UpdateOnlyNeverCreates ==
    (IsUpdate /\ last.update_only /\ last.current = None)
    => (/\ cache[last.key] = None
        /\ OpsOf("set") = {}
        /\ last.invalidated = <<>>)

\* an update_only call for a present entity whose key holds no entry
C3_Witness ==
    /\ IsUpdate
    /\ last.update_only
    /\ last.current = None
    /\ Truthy(last.instance)
    /\ cache[last.key] = None

\* C4: get_instances returns, and in its result the third component is None
\* for every spec the bulk-get found and the loaded entity of that spec for
\* every spec that missed, also for a batch of hits only.
C4_RawEntityOnlyForMisses ==
    IsGet =>
      /\ last.raised = "none"
      /\ \A sp \in DOMAIN last.result :
            last.result[sp][3] =
              IF last.result[sp][2] \in DOMAIN last.cache_values THEN None
              ELSE Loader(db, sp[1], sp[2])

\* C5: for a spec that misses and whose entity does not exist get_instances
\* returns normally, the result has no item for the spec, nothing is written
\* under its key, and the other specs of the batch are returned.
C5_AbsentIsDropped ==
    IsGet =>
      \A i \in 1..Len(last.object_specs) :
        LET sp == last.object_specs[i]
        IN  (/\ key_for(sp[1], sp[2]) \notin DOMAIN last.cache_values
             /\ Loader(db, sp[1], sp[2]) = None)
            => (/\ last.raised = "none"
                /\ sp \notin DOMAIN last.result
                /\ \A k \in OpsOf("set_many") :
                      key_for(sp[1], sp[2]) \notin DOMAIN last.ops[k].data
                /\ \A j \in 1..Len(last.object_specs) :
                      LET other == last.object_specs[j]
                      IN  (\/ key_for(other[1], other[2])
                                \in DOMAIN last.cache_values
                           \/ Loader(db, other[1], other[2]) # None)
                          => other \in DOMAIN last.result)

\* the entries get_instances is to store: the serialized loaded entities
Staged ==
    LET loaded == {i \in 1..Len(last.loads) :
                     Loader(db, last.loads[i][1], last.loads[i][2]) # None}
    IN  [k \in {key_for(last.loads[i][1], last.loads[i][2]) : i \in loaded} |->
           LET i == CHOOSE x \in loaded :
                      key_for(last.loads[x][1], last.loads[x][2]) = k
           IN  Serializer(Loader(db, last.loads[i][1], last.loads[i][2]))]

\* C6: a get_instances call performs exactly one bulk-get and at most one
\* bulk-write, never a per-item get or set, and the bulk-write holds exactly
\* the entries serialized from the entities loaded in this call.
C6_OneBulkGetOneBulkWrite ==
    IsGet =>
      /\ Cardinality(OpsOf("get_many")) = 1
      /\ Cardinality(OpsOf("set_many")) <= 1
      /\ OpsOf("get") \cup OpsOf("set") \cup OpsOf("delete") = {}
      /\ \A k \in OpsOf("set_many") : last.ops[k].data = Staged
      /\ last.raised = "none" =>
            (OpsOf("set_many") = {} <=> DOMAIN Staged = {})

\* a call that loaded a widget and an order and stored both at once
C6_Witness ==
    /\ IsGet
    /\ Len(last.object_specs) = 2
    /\ \E k \in OpsOf("set_many") : Cardinality(DOMAIN last.ops[k].data) = 2

\* C7: within one get_instances call the loader is invoked at most once per
\* missing entity, also when the list repeats a spec or names a type by two
\* qualifiers.
C7_OneLoadPerEntity ==
    IsGet =>
      \A i, j \in 1..Len(last.loads) :
        key_for(last.loads[i][1], last.loads[i][2])
          = key_for(last.loads[j][1], last.loads[j][2]) => i = j

\* C8: when update_instance finds the entity absent, an existing entry under
\* its key is removed and nothing else changes, the invalidator is not
\* invoked and the returned list is empty; without an entry the cache is
\* unchanged.
C8_AbsentEntity ==
    (IsUpdate /\ last.instance = None)
    => (/\ cache = IF last.current # None
                   THEN [last.before EXCEPT ![last.key] = None]
                   ELSE last.before
        /\ last.invalidated = <<>>
        /\ last.ret = <<>>)

\* an update for a deleted entity whose key held an entry
C8_Witness ==
    /\ IsUpdate
    /\ last.instance = None
    /\ last.current # None
    /\ cache[last.key] = None

\* the tuple targets among what the invalidator yielded, in its order
TupleTargets == SelectSeq(last.yields, LAMBDA u : u.kind = "spec")

CascadeKeys ==
    {last.yields[i].key :
        i \in {x \in 1..Len(last.yields) : last.yields[x].kind = "key"}}
    \cup
    {key_for(last.yields[i].model_name, last.yields[i].pk) :
        i \in {x \in 1..Len(last.yields) :
                 last.yields[x].kind = "spec" /\ last.yields[x].immediate}}

\* the keys of the dependents named by non-immediate tuples
DeferredKeys ==
    {key_for(last.yields[i].model_name, last.yields[i].pk) :
        i \in {x \in 1..Len(last.yields) :
                 last.yields[x].kind = "spec" /\ ~last.yields[x].immediate}}

\* C10: an update_instance call that writes a changed representation changes
\* the cache only at the entity's own key (set), at the literal keys and at
\* the keys of immediate tuples (deleted); dependents named by non-immediate
\* tuples and all other keys keep their entries, and the invalidator is
\* invoked once, for the updated entity.
C10_OneHopFrame ==
    (IsUpdate /\ OpsOf("set") # {})
    => (/\ \A k \in Keys \ ({last.key} \cup CascadeKeys) :
              cache[k] = last.before[k]
        /\ \A k \in CascadeKeys : cache[k] = None
        /\ \A k \in DeferredKeys \ CascadeKeys : cache[k] = last.before[k]
        /\ cache[last.key] # None
        /\ RepOf(cache[last.key]) = last.new.rep
        /\ last.invalidated = <<last.instance>>
        /\ last.instance.model = Resolved[last.model_name]
        /\ last.instance.pk = last.pk)

\* a write whose cascade deletes a literal key and an immediate dependent
\* and names a cached dependent without the immediate flag
C10_Witness ==
    /\ IsUpdate
    /\ OpsOf("set") # {}
    /\ \E k \in CascadeKeys : last.before[k] # None /\ k \in FarKeys
    /\ ListKey \in CascadeKeys /\ last.before[ListKey] # None
    /\ \E k \in DeferredKeys :
          k \in EntityKeys /\ last.before[k] # None /\ cache[k] # None

\* the last operation was an iteration whose get_instances call returned
IterReturned ==
    /\ last.op = "iter"
    /\ Len(last.gets) = 1
    /\ last.gets[1].raised = "none"

\* C11: iterating a facade whose key list is k1..kN yields N CachedModel
\* objects in key order, the i-th with the entry get_instances returned for
\* ki, and one with an empty representation for every ki the batch call
\* omitted; it does not raise.
C11_IterationYieldsEveryKey ==
    IterReturned =>
      /\ last.raised = "none"
      /\ Len(last.yielded) = Len(last.keys)
      /\ \A n \in 1..Len(last.keys) :
            last.yielded[n] =
              YieldOnePlaceholder(last.gets[1].result, last.keys[n])

\* the key list of a facade is in memory: a list, or a queryset that has
\* kept its rows
InMemory(self) ==
    /\ self.primary_keys # None
    /\ self.primary_keys.kind = "queryset" => self.result_cache # None

\* the last operation was an iteration that got as far as line 89
IterRan == last.op = "iter" /\ last.raised # "TypeError"

\* C12: one iteration asks the store for primary keys exactly once when the
\* facade's keys are not yet memoized and never when they are, and calls
\* get_instances exactly once, whatever the number of keys; over any
\* sequence of iterate, count and index operations on one facade the store
\* is asked for primary keys at most once.
C12_KeysResolvedOnce ==
    /\ IterRan =>
         /\ Len(last.gets) = 1
         /\ last.self.asked - last.before.asked =
              IF last.before.primary_keys = None THEN 1 ELSE 0
    /\ \A i \in DOMAIN facades : facades[i].asked <= 1

\* C12, amended: one iteration asks the store for primary keys exactly once
\* when the facade's key list is not yet in memory (never resolved, or a
\* slice of the store not yet evaluated) and never when it is, and calls
\* get_instances exactly once, whatever the number of keys; over any
\* sequence of iterate, count and index operations the key list of one
\* facade is fetched from the store at most once.
C12_KeyListFetchedOnce ==
    /\ IterRan =>
         /\ Len(last.gets) = 1
         /\ last.self.resolved - last.before.resolved =
              IF InMemory(last.before) THEN 0 ELSE 1
         /\ last.self.asked - last.before.asked =
              IF InMemory(last.before) THEN 0 ELSE 1
    /\ \A i \in DOMAIN facades : facades[i].resolved <= 1

\* a second iteration over a facade that resolved its two keys before
C12_Witness ==
    /\ last.op = "iter"
    /\ last.before.primary_keys # None
    /\ last.before.resolved = 1
    /\ last.self.resolved = 1
    /\ Len(last.keys) = 2
    /\ Len(last.gets) = 1

\* C13: filter and order_by return a new facade whose key list is None and
\* leave the receiver's queryset and key list as they were, whether the
\* receiver's keys were unresolved, memoized by an iteration or supplied by a
\* slice; a key list that has been set is not changed by any later
\* operation, and no operation changes the queryset of a facade.
C13_NewFacadeUnresolved ==
    [][/\ last'.op \in {"filter", "order_by"} =>
            /\ Len(facades') = Len(facades) + 1
            /\ facades'[Len(facades')] = last'.made
            /\ last'.made.primary_keys = None
            /\ last'.made.result_cache = None
            /\ facades'[last'.facade] = facades[last'.facade]
       /\ \A i \in DOMAIN facades :
            /\ i \in DOMAIN facades'
            /\ facades'[i].queryset = facades[i].queryset
            /\ facades[i].primary_keys # None =>
                  facades'[i].primary_keys = facades[i].primary_keys
            /\ facades[i].result_cache # None =>
                  facades'[i].result_cache = facades[i].result_cache]_vars

\* a filter on a facade that memoized two keys in an iteration
C13_Witness ==
    /\ last.op = "filter"
    /\ last.before.primary_keys # None
    /\ last.before.resolved = 1
    /\ last.before.primary_keys.kind = "list"
    /\ Len(last.before.primary_keys.items) = 2
    /\ last.made.primary_keys = None
    /\ facades[last.facade].primary_keys = last.before.primary_keys

\* C14: get(criteria), for criteria that match exactly one entity of the
\* store, returns a CachedModel with the entry get_instances reports for
\* that entity's pk, with a cold and with a warm cache, raises DoesNotExist
\* exactly when the result of get_instances omits the spec, and raises no
\* other error.
C14_GetOneEntity ==
    (last.op = "get" /\ Len(Matching(db, last.before, last.kwargs)) = 1)
    => /\ Len(last.gets) = 1
       /\ last.gets[1].object_specs = <<<<FacadeName, last.pk>>>>
       /\ last.gets[1].raised = "none"
       /\ last.raised \in {"none", "DoesNotExist"}
       /\ last.raised = "DoesNotExist"
            <=> <<FacadeName, last.pk>> \notin DOMAIN last.gets[1].result
       /\ last.raised = "none" =>
            last.returned =
              CachedModel(last.gets[1].result[<<FacadeName, last.pk>>][1])

\* the ordered key sequence of a facade whose key list is None or a
\* sequence: what the store gives now for keys not yet in memory
KeysOf(dbv, self) ==
    IF self.primary_keys = None THEN ValuesList(dbv, self.queryset)
    ELSE IF self.primary_keys.kind = "list" THEN self.primary_keys.items
    ELSE IF self.result_cache # None THEN self.result_cache.items
    ELSE Slice(ValuesList(dbv, self.primary_keys.queryset),
               self.primary_keys.lo, self.primary_keys.hi)

\* the key selects something of the sequence: any slice, an int in range
Selects(keys, key) == key.kind = "int" => key.i < Len(keys)

\* the keys an index or a range selects
Selected(keys, key) ==
    IF key.kind = "int" THEN <<keys[key.i + 1]>>
    ELSE Slice(keys, key.lo, key.hi)

\* C15: indexing or slicing a facade returns a new facade whose key list is
\* a sequence of exactly the keys that the index or range selects from the
\* receiver's ordered key sequence, whether the receiver's keys were
\* memoized or not; the new facade can be counted, and the receiver is
\* unchanged.
C15_ItemSelectsKeys ==
    (/\ last.op = "getitem"
     /\ last.before.primary_keys # None => last.before.primary_keys.kind # "int"
     /\ Selects(KeysOf(db, last.before), last.key))
    => /\ last.raised = "none"
       /\ last.made.primary_keys.kind \in {"list", "queryset"}
       /\ KeysOf(db, last.made) = Selected(KeysOf(db, last.before), last.key)
       /\ count(0, db, last.made).raised = "none"
       /\ count(0, db, last.made).value = Len(KeysOf(db, last.made))
       /\ facades[last.facade].queryset = last.before.queryset
       /\ facades[last.facade].primary_keys = last.before.primary_keys
       /\ facades[last.facade].result_cache = last.before.result_cache

\* the get_instances calls among the interleaved calls
GetCalls == {i \in DOMAIN calls : calls[i].op = "get_instances"}

\* the key of the entity the interleaved calls are about
ConcKey == _key_for(ConcRow[1], ConcRow[2])

\* no update_instance call was made and the entity was never changed
OnlyGets == GetCalls = DOMAIN calls /\ steps = Len(calls)

\* call i has returned the serialized entity for its spec
ReturnedEntity(i) ==
    /\ calls[i].acc.raised = "none"
    /\ calls[i].object_specs[1] \in DOMAIN calls[i].acc.result
    /\ calls[i].acc.result[calls[i].object_specs[1]][1]
         = Serializer(Loader(db, calls[i].object_specs[1][1],
                             calls[i].object_specs[1][2]))

\* two calls for the same missing spec have interleaved and finished
BothMissed(i, j) ==
    /\ i # j
    /\ calls[i].object_specs = calls[j].object_specs
    /\ calls[i].cache_values = EmptyMap /\ calls[j].cache_values = EmptyMap
    /\ calls[i].pc = "done" /\ calls[j].pc = "done"

\* the race itself: two get_instances calls that both miss the same spec,
\* with no update meanwhile, invoke the loader once each and both return the
\* serialized entity, and after both the key holds that representation
RaceHeals ==
    (OnlyGets /\ db[ConcRow] # 0) =>
      \A i, j \in GetCalls :
        BothMissed(i, j) =>
          /\ Len(calls[i].acc.loads) = 1 /\ Len(calls[j].acc.loads) = 1
          /\ ReturnedEntity(i) /\ ReturnedEntity(j)
          /\ cache[ConcKey] = Serializer(Loader(db, calls[i].object_specs[1][1],
                                                calls[i].object_specs[1][2]))

\* C16: when two get_instances calls for the same missing spec interleave,
\* with no update to the entity meanwhile, each invokes the loader once,
\* both return the entity's serialized representation, after both the key
\* holds that representation, and a later get_instances for the spec is a
\* cache hit that returns the same data.
C16_ConcurrentMissHeals ==
    /\ RaceHeals
    /\ (OnlyGets /\ db[ConcRow] # 0) =>
         \A i, j, k \in GetCalls :
           (/\ BothMissed(i, j)
            /\ calls[k].object_specs = calls[i].object_specs
            /\ calls[k].cache_values # EmptyMap
            /\ calls[k].pc = "done")
           => (calls[k].acc.loads = <<>> /\ ReturnedEntity(k))

\* the update_instance calls among the interleaved calls
UpdateCalls == {i \in DOMAIN calls : calls[i].op = "update_instance"}

\* C19: once update_instance(type, pk, update_only=False), entered after the
\* entity's last change, and every get_instances call that overlapped with
\* it have completed, the entry under the entity's key is the serialization
\* of the entity's current state, whatever the interleaving.
C19_NoStaleEntry ==
    \A u \in UpdateCalls :
      (/\ UpdateCalls = {u}
       /\ ~calls[u].update_only
       /\ calls[u].instance # None
       /\ calls[u].instance = Loader(db, calls[u].model_name, calls[u].pk)
       /\ \A i \in DOMAIN calls : calls[i].pc = "done")
      => (/\ cache[ConcKey] # None
          /\ RepOf(cache[ConcKey]) = Serializer(calls[u].instance).rep)

\* C17: under a fixed configuration key_for(q1, pk1) equals key_for(q2, pk2)
\* exactly when q1 and q2 resolve to the same model and pk1 equals pk2: a
\* bare and a qualified name of one model give the same key, distinct
\* (model, pk) pairs give different keys, and the key of Widget 7 of the app
\* shop is the prefix, then _shop.widget_7.
C17_KeyIdentifiesEntity ==
    last.op = "key_for" =>
      /\ last.key1 = last.key2
           <=> (last.model1 = last.model2 /\ last.pk1 = last.pk2)
      /\ (last.q1 = "Widget" /\ last.pk1 = PkInt(7)) =>
            last.key1 = CACHE_KEY_PREFIX \o "_shop.widget_7"

\* C18: after any sequence of get_instances and update_instance calls every
\* value stored under the key of an entity is the serializer's output for
\* that entity, in the form get_instances stores it, whichever call wrote it.
C18_OneStoredForm ==
    \A row \in Rows :
      cache[_key_for(row[1], row[2])] # None =>
        \E ver \in Versions :
          cache[_key_for(row[1], row[2])]
            = Serializer(Entity(row[1], row[2], ver))

\* C20: with the default strategies of ViewCache, update_instance for a
\* present entity whose serialization differs from the cached value writes
\* the new value, changes no other key, and returns an empty list without
\* raising.
C20_ViewUpdateWrites ==
    (/\ IsUpdate
     /\ Truthy(last.instance)
     /\ last.current # last.new
     /\ ~last.update_only \/ Truthy(last.current))
    => (/\ last.raised = "none"
        /\ last.ret = <<>>
        /\ cache[last.key] # None
        /\ RepOf(cache[last.key]) = last.new.rep
        /\ \A k \in Keys \ {last.key} : cache[k] = last.before[k])

=============================================================================
